---- MODULE Spec2Model ----
(***************************************************************************)
(* A model of tiktok_archiver.py: the Video normalisation (_clean_link,    *)
(* _clean_datetime), the export scanner (read_videos), the archive         *)
(* collector (discover_videos), the thread-pool download orchestrator      *)
(* (download_videos) and the driver (main).                                *)
(*                                                                         *)
(* Text is modelled as a sequence of one-character strings, so that        *)
(* prefix tests, splitting, replacing, stripping and timestamp parsing are *)
(* computed the way the Python code computes them.                         *)
(***************************************************************************)
EXTENDS Integers, Sequences, FiniteSets, TLC

\* -------------------------------------------------------------- bounds

\* How many times a normalisation is re-applied to its own output.
MaxApply == 2

\* The longest export file, in lines.
MaxLines == 4

\* The longest list of videos handed to download_videos.
MaxVideos == 3

\* The largest --parallel.
MaxThreads == 2

\* -------------------------------------------------------------- text

Digits == <<"0", "1", "2", "3", "4", "5", "6", "7", "8", "9">>

DigitSet == {Digits[i] : i \in 1..10}

\* The characters str.strip() removes and the regex class \s matches.
Whitespace == {" ", "\t", "\n", "\r"}

DigitVal(c) == (CHOOSE i \in 1..10 : Digits[i] = c) - 1

\* s[a..b], empty when a > b.
Slice(s, a, b) == [k \in 1..(IF b >= a THEN b - a + 1 ELSE 0) |-> s[a + k - 1]]

\* str.replace(c, ""): every occurrence of the character c is removed.
RECURSIVE RemoveChar(_, _)
RemoveChar(s, c) ==
    IF s = <<>> THEN <<>>
    ELSE IF Head(s) = c THEN RemoveChar(Tail(s), c)
    ELSE <<Head(s)>> \o RemoveChar(Tail(s), c)

RECURSIVE LStrip(_)
LStrip(s) ==
    IF s /= <<>> /\ Head(s) \in Whitespace THEN LStrip(Tail(s)) ELSE s

RECURSIVE RStrip(_)
RStrip(s) ==
    IF s /= <<>> /\ s[Len(s)] \in Whitespace
    THEN RStrip(SubSeq(s, 1, Len(s) - 1)) ELSE s

\* str.strip()
Strip(s) == RStrip(LStrip(s))

\* str.startswith(p)
StartsWith(s, p) == Len(s) >= Len(p) /\ SubSeq(s, 1, Len(p)) = p

\* Index of the first occurrence of c in s, 0 when there is none.
RECURSIVE FindFrom(_, _, _)
FindFrom(s, c, i) ==
    IF i > Len(s) THEN 0
    ELSE IF s[i] = c THEN i
    ELSE FindFrom(s, c, i + 1)

\* s.split(c, 1)[1]: everything after the first c (callers have checked that
\* s holds one).
AfterFirst(s, c) == Slice(s, FindFrom(s, c, 1) + 1, Len(s))

\* s.split(c, 1)[0]: everything before the first c, all of s without one.
BeforeFirst(s, c) ==
    IF FindFrom(s, c, 1) = 0 THEN s ELSE Slice(s, 1, FindFrom(s, c, 1) - 1)

\* The outcome of a call that may raise.
Raised == [ok |-> FALSE, val |-> <<>>]

Ok(v) == [ok |-> TRUE, val |-> v]

\* ------------------------------------------- datetime.strptime / isoformat

D19 == DigitSet \ {"0"}

\* The regex strptime builds for "%Y-%m-%d %H:%M:%S": one entry per element
\* of the format, each a priority-ordered list of alternatives, each
\* alternative a sequence of character classes.  The format's space becomes
\* \s+ and is expanded per input by WsAlts.
FormatRegex ==
    << << <<DigitSet, DigitSet, DigitSet, DigitSet>> >>,
       << <<{"-"}>> >>,
       << <<{"1"}, {"0", "1", "2"}>>, <<{"0"}, D19>>, <<D19>> >>,
       << <<{"-"}>> >>,
       << <<{"3"}, {"0", "1"}>>, <<{"1", "2"}, DigitSet>>, <<{"0"}, D19>>,
          <<D19>>, <<{" "}, D19>> >>,
       << >>,
       << <<{"2"}, {"0", "1", "2", "3"}>>, <<{"0", "1"}, DigitSet>>,
          <<DigitSet>> >>,
       << <<{":"}>> >>,
       << <<{"0", "1", "2", "3", "4", "5"}, DigitSet>>, <<DigitSet>> >>,
       << <<{":"}>> >>,
       << <<{"6"}, {"0", "1"}>>, <<{"0", "1", "2", "3", "4", "5"}, DigitSet>>,
          <<DigitSet>> >> >>

\* The position of \s+ in FormatRegex.
WsElement == 6

\* Length of the run of whitespace of s that starts at position i.
RECURSIVE WsRun(_, _)
WsRun(s, i) ==
    IF i <= Len(s) /\ s[i] \in Whitespace THEN 1 + WsRun(s, i + 1) ELSE 0

\* \s+ is greedy: the longest run first, then each shorter one.
WsAlts(s, i) ==
    [n \in 1..WsRun(s, i) |-> [j \in 1..(WsRun(s, i) - n + 1) |-> Whitespace]]

AltsAt(s, i, k) == IF k = WsElement THEN WsAlts(s, i) ELSE FormatRegex[k]

AltMatches(s, i, alt) ==
    /\ i + Len(alt) - 1 <= Len(s)
    /\ \A j \in 1..Len(alt) : s[i + j - 1] \in alt[j]

\* re.match with backtracking: the first alternative of element k, in
\* priority order, after which the rest of the pattern matches too.  The
\* result holds the end of the match and the text each element matched.
RECURSIVE MatchFrom(_, _, _)
RECURSIVE TryAlts(_, _, _, _)
RECURSIVE TryAlt(_, _, _, _, _)
RECURSIVE TryRest(_, _, _, _, _, _)
MatchFrom(s, i, k) ==
    IF k > Len(FormatRegex) THEN [ok |-> TRUE, end |-> i, caps |-> <<>>]
    ELSE TryAlts(s, i, k, 1)

TryAlts(s, i, k, a) ==
    IF a > Len(AltsAt(s, i, k)) THEN [ok |-> FALSE, end |-> i, caps |-> <<>>]
    ELSE TryAlt(s, i, k, a, AltsAt(s, i, k)[a])

\* Alternative a of element k: when it matches at i the rest of the pattern
\* is tried after it, and the next alternative when either fails.
TryAlt(s, i, k, a, alt) ==
    IF AltMatches(s, i, alt)
    THEN TryRest(s, i, k, a, alt, MatchFrom(s, i + Len(alt), k + 1))
    ELSE TryAlts(s, i, k, a + 1)

TryRest(s, i, k, a, alt, rest) ==
    IF rest.ok
    THEN [ok |-> TRUE, end |-> rest.end,
          caps |-> <<Slice(s, i, i + Len(alt) - 1)>> \o rest.caps]
    ELSE TryAlts(s, i, k, a + 1)

\* int() of a matched field (%d may match a space before its digit).
RECURSIVE ToInt(_)
ToInt(ds) ==
    IF ds = <<>> THEN 0
    ELSE IF ds[Len(ds)] = " " THEN ToInt(SubSeq(ds, 1, Len(ds) - 1))
    ELSE 10 * ToInt(SubSeq(ds, 1, Len(ds) - 1)) + DigitVal(ds[Len(ds)])

IsLeap(y) == y % 4 = 0 /\ (y % 100 /= 0 \/ y % 400 = 0)

DaysInMonth(y, m) ==
    IF m = 2 THEN (IF IsLeap(y) THEN 29 ELSE 28)
    ELSE IF m \in {4, 6, 9, 11} THEN 30 ELSE 31

\* n as exactly w decimal digits, zero padded (%0wd for 0 <= n < 10^w).
RECURSIVE Pad(_, _)
Pad(n, w) == IF w = 0 THEN <<>> ELSE Pad(n \div 10, w - 1) \o <<Digits[(n % 10) + 1]>>

\* datetime.isoformat() of a datetime without microseconds or timezone.
IsoFormat(t) ==
    Pad(t.Y, 4) \o <<"-">> \o Pad(t.m, 2) \o <<"-">> \o Pad(t.d, 2) \o <<"T">>
    \o Pad(t.H, 2) \o <<":">> \o Pad(t.M, 2) \o <<":">> \o Pad(t.S, 2)

\* datetime.strptime(s, "%Y-%m-%d %H:%M:%S"): the regex must match at the
\* start, no text may remain after the match, and the fields must make a
\* valid datetime (year >= 1, the day within the month, second <= 59).
FieldsOf(caps) ==
    [Y |-> ToInt(caps[1]), m |-> ToInt(caps[3]), d |-> ToInt(caps[5]),
     H |-> ToInt(caps[7]), M |-> ToInt(caps[9]), S |-> ToInt(caps[11])]

CheckFields(t) ==
    IF t.Y < 1 \/ t.d > DaysInMonth(t.Y, t.m) \/ t.S > 59 THEN Raised
    ELSE Ok(t)

CheckMatch(s, found) ==
    IF ~found.ok \/ found.end /= Len(s) + 1 THEN Raised
    ELSE CheckFields(FieldsOf(found.caps))

Strptime(s) == CheckMatch(s, MatchFrom(s, 1, 1))

\* ------------------------------------------------------------------ Video

\* str.replace(c, "", 1): only the first occurrence of c is removed.
RemoveFirst(s, c) ==
    IF FindFrom(s, c, 1) = 0 THEN s
    ELSE Slice(s, 1, FindFrom(s, c, 1) - 1)
         \o Slice(s, FindFrom(s, c, 1) + 1, Len(s))

\* A variant of _clean_link that replaces with a count of 1.
clean_link_first(link) == RemoveFirst(RemoveFirst(link, " "), "\n")

\* Video._clean_link
clean_link(link) == RemoveChar(RemoveChar(link, " "), "\n")

\* Video._clean_datetime: the new value of the field, or the ValueError of
\* strptime.
IsoOf(t) == IF t.ok THEN Ok(IsoFormat(t.val)) ELSE Raised

clean_datetime(dt) == IsoOf(Strptime(Strip(RemoveChar(dt, "\n"))))

\* Video(datetime=..., link=...): __post_init__ cleans the link, then the
\* datetime; the ValueError of the latter leaves no Video.
VideoOf(link, d) ==
    IF d.ok THEN Ok([link |-> link, datetime |-> d.val]) ELSE Raised

NewVideo(dt, link) == VideoOf(clean_link(link), clean_datetime(dt))

\* ------------------------------------------------------------------ state

VARIABLES
    \* Video fields under repeated normalisation: each a history, the raw
    \* value first, then the outcome of each application.
    cl_link, cl_datetime,
    \* read_videos: whether file_path is a file, its lines, the number of
    \* lines processed, the locals date_time, link and videos, and where
    \* the call stands.
    rv_is_file, rv_lines, rv_pos, rv_date_time, rv_link, rv_videos, rv_pc,
    \* download_videos: its arguments videos and threads, where the call
    \* stands, the pool (next task to hand out, what each worker thread
    \* runs, the result of each task), the local done_count, the lines
    \* printed to stderr, and how often a process was started per task.
    dl_videos, dl_threads, dl_pc, dl_next, dl_worker, dl_results,
    done_count, dl_output, dl_starts,
    \* The fetch processes themselves, one per task: whether youtube-dl was
    \* started and how it ended, as the operating system saw it.
    dl_proc,
    \* main: where it stands, what archive_path is, the category files of
    \* the export, args.save, args.parallel, archive_videos, the category
    \* being downloaded, the number of fetch processes started so far and
    \* the categories download_videos was called for (the last part of its
    \* output argument), in call order.
    m_pc, archive_path, m_files, save, parallel, archive_videos, m_cat,
    m_started, m_calls

cleanVars == <<cl_link, cl_datetime>>

scanVars ==
    <<rv_is_file, rv_lines, rv_pos, rv_date_time, rv_link, rv_videos, rv_pc>>

dlVars ==
    <<dl_videos, dl_threads, dl_pc, dl_next, dl_worker, dl_results,
      done_count, dl_output, dl_starts, dl_proc>>

mainVars ==
    <<m_pc, archive_path, m_files, save, parallel, archive_videos, m_cat,
      m_started, m_calls>>

vars == <<cleanVars, scanVars, dlVars, mainVars>>

\* The parts of the state a specification does not exercise.
CleanIdle == cl_link = <<>> /\ cl_datetime = <<>>

ScanIdle ==
    /\ rv_is_file = FALSE /\ rv_lines = <<>> /\ rv_pos = 0
    /\ rv_date_time = [set |-> FALSE, val |-> <<>>]
    /\ rv_link = [set |-> FALSE, val |-> <<>>]
    /\ rv_videos = <<>> /\ rv_pc = "idle"

DlIdle ==
    /\ dl_videos = <<>> /\ dl_threads = 0 /\ dl_pc = "idle" /\ dl_next = 1
    /\ dl_worker = <<>> /\ dl_results = <<>> /\ done_count = 0
    /\ dl_output = <<>> /\ dl_starts = <<>> /\ dl_proc = <<>>

MainIdle ==
    /\ m_pc = "idle" /\ archive_path = "dir" /\ m_files = <<>> /\ save = <<>>
    /\ parallel = 0 /\ archive_videos = <<>> /\ m_cat = 0 /\ m_started = 0
    /\ m_calls = <<>>

\* ------------------------------------------- normalisation, applied again

\* Raw timestamps, built from parts: text after "Date:" as an export line
\* may hold it.
TsLead == {<<>>, <<" ">>}

TsDate ==
    { <<"2", "0", "2", "0", "-", "0", "8", "-", "1", "2">>,
      <<"2", "0", "2", "0", "-", "8", "-", "2">>,
      <<"2", "0", "2", "0", "-", "0", "2", "-", "3", "0">>,
      <<"2", "0", "2", "0", "-", "1", "3", "-", "0", "1">>,
      <<"2", "0", "2", "0", "-", "0", "8", "-", " ", "5">>,
      <<"0", "0", "0", "0", "-", "0", "1", "-", "0", "1">> }

TsSep == {<<" ">>, <<" ", " ">>, <<"\t">>, <<"T">>, <<>>}

TsTime ==
    { <<"0", "2", ":", "1", "6", ":", "2", "2">>,
      <<"2", ":", "6", ":", "2">>,
      <<"2", "4", ":", "0", "0", ":", "0", "0">>,
      <<"0", "2", ":", "1", "6", ":", "6", "0">>,
      <<"0", "2", ":", "1", "6">> }

TsTrail == {<<>>, <<"\n">>, <<" ", "x", "\n">>}

RawDatetimes ==
    {l \o d \o s \o t \o e :
        l \in TsLead, d \in TsDate, s \in TsSep, t \in TsTime, e \in TsTrail}
    \cup {<<"n", "o", "t", "-", "a", "-", "d", "a", "t", "e">>}

\* Raw links: text after "Video Link:".
RawLinks ==
    { <<" ", "h", ":", "/", "1", "\n">>,
      <<"h", ":", "/", "1">>,
      <<"\t", "h", ":", "/", "2", "\n">>,
      <<" ", "h", ":", "/", " ", "3", " ", "\n">>,
      <<" ", "h", "\n", ":", "\n", "\n">>,
      <<"\n">>,
      <<>> }

InitClean ==
    /\ \E l \in RawLinks : cl_link = <<l>>
    /\ \E d \in RawDatetimes : cl_datetime = <<Ok(d)>>
    /\ ScanIdle /\ DlIdle /\ MainIdle

\* _clean_link applied to the link as it stands.
CleanLinkAgain ==
    /\ Len(cl_link) <= MaxApply
    /\ cl_link' = Append(cl_link, clean_link(cl_link[Len(cl_link)]))
    /\ UNCHANGED <<cl_datetime, scanVars, dlVars, mainVars>>

\* _clean_datetime applied to the datetime as it stands; nothing is left to
\* apply it to once it has raised.
CleanDatetimeAgain ==
    /\ Len(cl_datetime) <= MaxApply
    /\ cl_datetime[Len(cl_datetime)].ok
    /\ cl_datetime' =
           Append(cl_datetime, clean_datetime(cl_datetime[Len(cl_datetime)].val))
    /\ UNCHANGED <<cl_link, scanVars, dlVars, mainVars>>

NextClean == CleanLinkAgain \/ CleanDatetimeAgain

SpecClean == InitClean /\ [][NextClean]_vars

\* ------------------------------------------------------------ read_videos

None == [set |-> FALSE, val |-> <<>>]

Some(v) == [set |-> TRUE, val |-> v]

\* Python truth of an optional string: neither None nor "".
Truthy(o) == o.set /\ o.val /= <<>>

DatePrefix ==
    <<"D", "a", "t", "e", ":", " ">>

LinkPrefix ==
    <<"V", "i", "d", "e", "o", " ", "L", "i", "n", "k", ":">>

\* One turn of the loop over path.readlines(), on the locals
\* st = [date_time, link, videos]: the if/elif on the line's prefix, then
\* the completion test.  ok is FALSE when Video(...) raised.
\* Lines 123-126: the if/elif on the line's prefix.
\* A variant of lines 123-124 that keeps a pending timestamp: the first
\* Date line wins.
DateAfterFirstWins(date_time, line) ==
    IF StartsWith(line, DatePrefix) /\ ~date_time.set
    THEN Some(AfterFirst(line, ":"))
    ELSE date_time

DateAfter(date_time, line) ==
    IF StartsWith(line, DatePrefix) THEN Some(AfterFirst(line, ":"))
    ELSE date_time

\* A variant of line 125 with a plain else: every line that is no Date
\* line is taken for a link line.
LinkAfterElse(link, line) ==
    IF ~StartsWith(line, DatePrefix)
    THEN Some(AfterFirst(line, ":"))
    ELSE link

LinkAfter(link, line) ==
    IF ~StartsWith(line, DatePrefix) /\ StartsWith(line, LinkPrefix)
    THEN Some(AfterFirst(line, ":"))
    ELSE link

\* A variant of lines 129-131 that forgets "link = None".
EmitKeepLink(videos, dt, lk, v) ==
    IF v.ok
    THEN [ok |-> TRUE, date_time |-> None, link |-> lk,
          videos |-> Append(videos, v.val)]
    ELSE [ok |-> FALSE, date_time |-> dt, link |-> lk, videos |-> videos]

\* A variant of lines 129-131 that catches the ValueError and skips the pair.
EmitSkipBad(videos, dt, lk, v) ==
    IF v.ok
    THEN [ok |-> TRUE, date_time |-> None, link |-> None,
          videos |-> Append(videos, v.val)]
    ELSE [ok |-> TRUE, date_time |-> None, link |-> None, videos |-> videos]

\* Lines 129-131: the Video is appended and both locals are reset, or
\* Video(...) raised.
Emit(videos, dt, lk, v) ==
    IF v.ok
    THEN [ok |-> TRUE, date_time |-> None, link |-> None,
          videos |-> Append(videos, v.val)]
    ELSE [ok |-> FALSE, date_time |-> dt, link |-> lk, videos |-> videos]

\* Line 128: the completion test.
Complete(videos, dt, lk) ==
    IF Truthy(dt) /\ Truthy(lk)
    THEN Emit(videos, dt, lk, NewVideo(dt.val, lk.val))
    ELSE [ok |-> TRUE, date_time |-> dt, link |-> lk, videos |-> videos]

ReadLine(st, line) ==
    Complete(st.videos, DateAfter(st.date_time, line), LinkAfter(st.link, line))

\* The loop over the lines from position i on.
RECURSIVE ReadLines(_, _, _)
RECURSIVE ReadRest(_, _, _)
ReadLines(st, lines, i) ==
    IF i > Len(lines) THEN Ok(st.videos)
    ELSE ReadRest(ReadLine(st, lines[i]), lines, i + 1)

ReadRest(nx, lines, i) == IF nx.ok THEN ReadLines(nx, lines, i) ELSE Raised

\* A variant of read_videos without the is_file test of lines 117-118:
\* open() raises on a path that is no file.
read_videos_no_test(file) ==
    IF ~file.is_file THEN Raised
    ELSE ReadLines([date_time |-> None, link |-> None, videos |-> <<>>],
                   file.lines, 1)

\* read_videos(file_path) as one call; file = [is_file, lines].
read_videos(file) ==
    IF ~file.is_file THEN Ok(<<>>)
    ELSE ReadLines([date_time |-> None, link |-> None, videos |-> <<>>],
                   file.lines, 1)

\* Lines an export file may hold.
DateLine1 ==
    <<"D", "a", "t", "e", ":", " ", "2", "0", "2", "0", "-", "0", "8", "-",
      "1", "2", " ", "0", "2", ":", "1", "6", ":", "2", "2", "\n">>

DateLine2 ==
    <<"D", "a", "t", "e", ":", " ", "2", "0", "2", "0", "-", "0", "8", "-",
      "1", "3", " ", "1", "0", ":", "0", "0", ":", "0", "0", "\n">>

DateLineBad ==
    <<"D", "a", "t", "e", ":", " ", "n", "o", "t", "-", "a", "-", "d", "a",
      "t", "e", "\n">>

LinkLine1 ==
    <<"V", "i", "d", "e", "o", " ", "L", "i", "n", "k", ":", " ", "h", ":",
      "/", "1", "\n">>

LinkLine2 ==
    <<"V", "i", "d", "e", "o", " ", "L", "i", "n", "k", ":", " ", "h", ":",
      "/", "2", "\n">>

LinkLineTab ==
    <<"V", "i", "d", "e", "o", " ", "L", "i", "n", "k", ":", "\t", "h",
      ":", "/", "3", "\n">>

\* A last line without its newline and with nothing after the colon.
LinkLineBare ==
    <<"V", "i", "d", "e", "o", " ", "L", "i", "n", "k", ":">>

\* A line with neither prefix ("Date:" without the space).
OtherLine ==
    <<"D", "a", "t", "e", ":", "x", "\n">>

LineChoices ==
    {DateLine1, DateLine2, DateLineBad, LinkLine1, LinkLine2, LinkLineTab,
     LinkLineBare, OtherLine}

\* readlines() keeps each line's newline; only the last line may lack one.
IsLines(f) == \A i \in 1..(Len(f) - 1) : f[i][Len(f[i])] = "\n"

ScanFiles ==
    {f \in UNION {[1..n -> LineChoices] : n \in 0..MaxLines} : IsLines(f)}

InitScan ==
    /\ rv_is_file \in BOOLEAN
    /\ rv_lines \in (IF rv_is_file THEN ScanFiles ELSE {<<>>})
    /\ rv_pos = 0 /\ rv_date_time = None /\ rv_link = None
    /\ rv_videos = <<>> /\ rv_pc = "call"
    /\ CleanIdle /\ DlIdle /\ MainIdle

\* Lines 113-120: the locals are set, a path that is no file returns the
\* empty list, otherwise the file is opened and read.
RvOpen ==
    /\ rv_pc = "call"
    /\ rv_pc' = IF rv_is_file THEN "reading" ELSE "returned"
    /\ UNCHANGED <<rv_is_file, rv_lines, rv_pos, rv_date_time, rv_link,
                   rv_videos, cleanVars, dlVars, mainVars>>

\* One turn of the loop; a ValueError from Video(...) leaves the function.
RvLine ==
    /\ rv_pc = "reading" /\ rv_pos < Len(rv_lines)
    /\ \E nx \in {ReadLine([date_time |-> rv_date_time, link |-> rv_link,
                            videos |-> rv_videos], rv_lines[rv_pos + 1])} :
          /\ rv_date_time' = nx.date_time
          /\ rv_link' = nx.link
          /\ rv_videos' = nx.videos
          /\ rv_pc' = IF nx.ok THEN "reading" ELSE "raised"
    /\ rv_pos' = rv_pos + 1
    /\ UNCHANGED <<rv_is_file, rv_lines, cleanVars, dlVars, mainVars>>

\* The loop is over: return videos.
RvReturn ==
    /\ rv_pc = "reading" /\ rv_pos = Len(rv_lines)
    /\ rv_pc' = "returned"
    /\ UNCHANGED <<rv_is_file, rv_lines, rv_pos, rv_date_time, rv_link,
                   rv_videos, cleanVars, dlVars, mainVars>>

NextScan == RvOpen \/ RvLine \/ RvReturn

SpecScan == InitScan /\ [][NextScan]_vars

\* -------------------------------------------------------- download_videos

\* How a started youtube-dl may end: its exit status (negative when a
\* signal ended it) and what it wrote to stderr (captured as text).
ExitChoices ==
    { [returncode |-> 0, stderr |-> <<>>],
      [returncode |-> 0, stderr |-> <<"w", "\n">>],
      [returncode |-> 1, stderr |-> <<"e", "\n", "f", "\n">>],
      [returncode |-> 1, stderr |-> <<>>],
      [returncode |-> -9, stderr |-> <<"x">>] }

NoResult == [kind |-> "none", returncode |-> 0, stderr |-> <<>>, link |-> <<>>]

\* The worker's (False, exception): subprocess.run raised.
ExceptionResult ==
    [kind |-> "exception", returncode |-> 0, stderr |-> <<>>, link |-> <<>>]

\* A variant of line 161 that runs with check=True: a non-zero exit raises
\* CalledProcessError.
RunResultChecked(link, exit) ==
    IF exit.returncode /= 0 THEN ExceptionResult
    ELSE [kind |-> "completed", returncode |-> exit.returncode,
          stderr |-> exit.stderr, link |-> link]

\* Line 161: subprocess.run(command, capture_output=True, text=True) returns
\* a CompletedProcess whatever the exit status; args[-1] is the link.
RunResult(link, exit) ==
    [kind |-> "completed", returncode |-> exit.returncode,
     stderr |-> exit.stderr, link |-> link]

\* A variant of line 160 that sizes the pool by the work.
PoolSizeByVideos(threads, n) == n

\* Line 160: dummy.Pool(threads) has threads worker threads.
PoolSize(threads, n) == threads

\* Line 144: the line printed before the downloads.
HeaderLine(n) ==
    [kind |-> "header", count |-> 0, total |-> n, link |-> <<>>,
     error |-> <<>>]

\* A variant of lines 167-181 whose counter is shared with the workers: the
\* line shows how many processes have exited when it is printed.
ProgressLineShared(count, total, result) ==
    [kind |-> IF result.returncode = 0 THEN "DONE" ELSE "FAILED",
     count |-> Cardinality({i \in DOMAIN dl_proc :
                               dl_proc[i].state = "exited"}),
     total |-> total, link |-> result.link,
     error |-> IF result.returncode = 0 THEN <<>>
               ELSE BeforeFirst(result.stderr, "\n")]

\* A variant of line 168 that takes only a positive exit status for a
\* failure.
ProgressLinePositive(count, total, result) ==
    IF result.returncode <= 0
    THEN [kind |-> "DONE", count |-> count, total |-> total,
          link |-> result.link, error |-> <<>>]
    ELSE [kind |-> "FAILED", count |-> count, total |-> total,
          link |-> result.link, error |-> BeforeFirst(result.stderr, "\n")]

\* Lines 168-181: the line printed for one result.
ProgressLine(count, total, result) ==
    IF result.returncode = 0
    THEN [kind |-> "DONE", count |-> count, total |-> total,
          link |-> result.link, error |-> <<>>]
    ELSE [kind |-> "FAILED", count |-> count, total |-> total,
          link |-> result.link, error |-> BeforeFirst(result.stderr, "\n")]

NoProc == [state |-> "none", returncode |-> 0, stderr |-> <<>>]

\* What no step of download_videos touches.
dlOthers ==
    <<m_pc, archive_path, m_files, save, parallel, archive_videos, m_cat,
      m_calls, cleanVars, scanVars>>

\* The state download_videos is called in.
DlCalled(videos, threads) ==
    /\ dl_videos = videos /\ dl_threads = threads /\ dl_pc = "call"
    /\ dl_next = 1 /\ dl_worker = <<>>
    /\ dl_results = [i \in 1..Len(videos) |-> NoResult]
    /\ done_count = 0 /\ dl_output = <<>>
    /\ dl_starts = [i \in 1..Len(videos) |-> 0]
    /\ dl_proc = [i \in 1..Len(videos) |-> NoProc]

\* Lines 144-162: the header is printed, the commands are built, the pool
\* is made and imap queues one task per command.  Pool raises ValueError
\* for fewer than one thread.
DlBegin ==
    /\ dl_pc = "call"
    /\ dl_output' = Append(dl_output, HeaderLine(Len(dl_videos)))
    /\ IF PoolSize(dl_threads, Len(dl_videos)) < 1
       THEN dl_pc' = "raised" /\ UNCHANGED dl_worker
       ELSE /\ dl_pc' = "iterating"
            /\ dl_worker' =
                   [w \in 1..PoolSize(dl_threads, Len(dl_videos)) |-> 0]
    /\ UNCHANGED <<dl_videos, dl_threads, dl_next, dl_results, done_count,
                   dl_starts, dl_proc, m_started,
                   dlOthers>>

\* The pool's threads run while the process lives: main iterating, or the
\* exception on its way out of main.
PoolRuns == dl_pc \in {"iterating", "raised"} /\ m_pc \notin {"done", "failed"}

\* An idle worker takes the next task off the queue and subprocess.run
\* starts youtube-dl for it.
WorkerLaunch(w) ==
    /\ PoolRuns /\ dl_worker[w] = 0 /\ dl_next <= Len(dl_videos)
    /\ dl_worker' = [dl_worker EXCEPT ![w] = dl_next]
    /\ dl_starts' = [dl_starts EXCEPT ![dl_next] = @ + 1]
    /\ dl_proc' = [dl_proc EXCEPT ![dl_next].state = "running"]
    /\ dl_next' = dl_next + 1
    /\ m_started' = m_started + 1
    /\ UNCHANGED <<dl_videos, dl_threads, dl_pc, dl_results, done_count,
                   dl_output,
                   dlOthers>>

\* An idle worker takes the next task and subprocess.run cannot start
\* youtube-dl (OSError): the worker stores the exception as the result.
WorkerLaunchFails(w) ==
    /\ PoolRuns /\ dl_worker[w] = 0 /\ dl_next <= Len(dl_videos)
    /\ dl_results' = [dl_results EXCEPT ![dl_next] = ExceptionResult]
    /\ dl_proc' = [dl_proc EXCEPT ![dl_next].state = "nolaunch"]
    /\ dl_next' = dl_next + 1
    /\ UNCHANGED <<dl_videos, dl_threads, dl_pc, dl_worker, done_count,
                   dl_output, dl_starts, m_started,
                   dlOthers>>

\* A variant of the worker that retries: after a non-zero exit it starts
\* youtube-dl for the same task a second time.
ProcExitRetry(w) ==
    /\ PoolRuns /\ dl_worker[w] /= 0
    /\ \E exit \in ExitChoices :
          IF exit.returncode /= 0 /\ dl_starts[dl_worker[w]] < 2
          THEN /\ dl_starts' = [dl_starts EXCEPT ![dl_worker[w]] = @ + 1]
               /\ m_started' = m_started + 1
               /\ UNCHANGED <<dl_results, dl_proc, dl_worker>>
          ELSE /\ dl_results' =
                      [dl_results EXCEPT ![dl_worker[w]] =
                          RunResult(dl_videos[dl_worker[w]].link, exit)]
               /\ dl_proc' =
                      [dl_proc EXCEPT ![dl_worker[w]] =
                          [state |-> "exited", returncode |-> exit.returncode,
                           stderr |-> exit.stderr]]
               /\ dl_worker' = [dl_worker EXCEPT ![w] = 0]
               /\ UNCHANGED <<dl_starts, m_started>>
    /\ UNCHANGED <<dl_videos, dl_threads, dl_pc, dl_next, done_count,
                   dl_output,
                   dlOthers>>

\* youtube-dl exits; subprocess.run returns and the worker stores the
\* result and is idle again.
ProcExit(w) ==
    /\ PoolRuns /\ dl_worker[w] /= 0
    /\ \E exit \in ExitChoices :
          /\ dl_results' =
                 [dl_results EXCEPT ![dl_worker[w]] =
                     RunResult(dl_videos[dl_worker[w]].link, exit)]
          /\ dl_proc' =
                 [dl_proc EXCEPT ![dl_worker[w]] =
                     [state |-> "exited", returncode |-> exit.returncode,
                      stderr |-> exit.stderr]]
    /\ dl_worker' = [dl_worker EXCEPT ![w] = 0]
    /\ UNCHANGED <<dl_videos, dl_threads, dl_pc, dl_next, done_count,
                   dl_output, dl_starts, m_started,
                   dlOthers>>

\* A variant of line 160 with imap_unordered: the iterator hands out any
\* result that is there, whatever its place in the input.
IterNextUnordered ==
    /\ dl_pc = "iterating" /\ done_count < Len(dl_videos)
    /\ \E i \in DOMAIN dl_results :
          /\ dl_results[i].kind \in {"completed", "exception"}
          /\ dl_results' = [dl_results EXCEPT ![i].kind = "taken"]
          /\ IF dl_results[i].kind = "exception"
             THEN dl_pc' = "raised" /\ UNCHANGED <<done_count, dl_output>>
             ELSE /\ done_count' = done_count + 1
                  /\ dl_output' =
                         Append(dl_output,
                                ProgressLine(done_count + 1, Len(dl_videos),
                                             dl_results[i]))
                  /\ UNCHANGED dl_pc
    /\ UNCHANGED <<dl_videos, dl_threads, dl_next, dl_worker,
                   dl_starts, dl_proc, m_started,
                   dlOthers>>

\* Lines 166-181: the imap iterator hands out the results in task order; the
\* next one is there.  A stored exception is raised again at this point,
\* otherwise done_count goes up and the line is printed.
IterNext ==
    /\ dl_pc = "iterating" /\ done_count < Len(dl_videos)
    /\ dl_results[done_count + 1].kind /= "none"
    /\ IF dl_results[done_count + 1].kind = "exception"
       THEN dl_pc' = "raised" /\ UNCHANGED <<done_count, dl_output>>
       ELSE /\ done_count' = done_count + 1
            /\ dl_output' =
                   Append(dl_output,
                          ProgressLine(done_count + 1, Len(dl_videos),
                                       dl_results[done_count + 1]))
            /\ UNCHANGED dl_pc
    /\ UNCHANGED <<dl_videos, dl_threads, dl_next, dl_worker, dl_results,
                   dl_starts, dl_proc, m_started,
                   dlOthers>>

\* A variant of the loop that does not wait for the results: the call
\* returns once every task is handed to a worker.
DlReturnEarly ==
    /\ dl_pc = "iterating" /\ dl_next > Len(dl_videos)
    /\ dl_pc' = "returned"
    /\ UNCHANGED <<dl_videos, dl_threads, dl_next, dl_worker, dl_results,
                   done_count, dl_output, dl_starts, dl_proc, m_started,
                   dlOthers>>

\* The iterator is exhausted: the loop ends and download_videos returns.
DlReturn ==
    /\ dl_pc = "iterating" /\ done_count = Len(dl_videos)
    /\ dl_pc' = "returned"
    /\ UNCHANGED <<dl_videos, dl_threads, dl_next, dl_worker, dl_results,
                   done_count, dl_output, dl_starts, dl_proc, m_started,
                   dlOthers>>

\* Any worker thread of the pool.
Launch == \E w \in DOMAIN dl_worker : WorkerLaunch(w)

LaunchFails == \E w \in DOMAIN dl_worker : WorkerLaunchFails(w)

Exit == \E w \in DOMAIN dl_worker : ProcExit(w)

Video1 == [link |-> <<"h", ":", "/", "1">>,
           datetime |-> <<"2", "0", "2", "0", "-", "0", "8", "-", "1", "2",
                          "T", "0", "2", ":", "1", "6", ":", "2", "2">>]

Video2 == [link |-> <<"h", ":", "/", "2">>,
           datetime |-> <<"2", "0", "2", "0", "-", "0", "8", "-", "1", "3",
                          "T", "1", "0", ":", "0", "0", ":", "0", "0">>]

\* One call of download_videos: a non-empty list (main passes no other) and
\* any --parallel, zero and negative included.
InitDownload ==
    /\ \E videos \in UNION {[1..n -> {Video1, Video2}] : n \in 1..MaxVideos} :
       \E threads \in (-1)..MaxThreads :
          DlCalled(videos, threads)
    /\ m_pc = "idle" /\ archive_path = "dir" /\ m_files = <<>> /\ save = <<>>
    /\ parallel = 0 /\ archive_videos = <<>> /\ m_cat = 0 /\ m_started = 0
    /\ m_calls = <<>>
    /\ CleanIdle /\ ScanIdle

NextDownload ==
    DlBegin \/ Launch \/ LaunchFails \/ Exit \/ IterNext \/ DlReturn

SpecDownload == InitDownload /\ [][NextDownload]_vars

\* The scheduling download_videos runs under: the main thread and every
\* pool worker keep getting the processor, and a started youtube-dl exits
\* in the end.  Whether youtube-dl can be started is up to the system.
DownloadFairness ==
    /\ WF_vars(DlBegin) /\ WF_vars(Launch) /\ WF_vars(Exit)
    /\ WF_vars(IterNext) /\ WF_vars(DlReturn)

SpecDownloadFair == InitDownload /\ [][NextDownload]_vars /\ DownloadFairness

\* ------------------------------------------------------------------- main

\* The categories in the order main goes through them (lines 194-214).
Categories == <<"favourites", "likes", "uploads", "history">>

\* What no step of main after the extraction touches.
mainOthers == <<archive_path, m_files, save, parallel, cleanVars, scanVars>>

dlCallVars ==
    <<dl_videos, dl_threads, dl_pc, dl_next, dl_worker, dl_results,
      done_count, dl_output, dl_starts, dl_proc>>

\* The files a category's path may lead to, by name: no file, a file of two
\* records, a file whose second record has a malformed timestamp.
NoFile == [is_file |-> FALSE, lines |-> <<>>]

FileTwo ==
    [is_file |-> TRUE, lines |-> <<LinkLine2, DateLine2, DateLine1, LinkLine1>>]

FileBad ==
    [is_file |-> TRUE, lines |-> <<DateLine1, LinkLine1, DateLineBad, LinkLine2>>]

FileNamed(name) ==
    CASE name = "two" -> FileTwo
      [] name = "bad" -> FileBad
      [] OTHER -> NoFile

MainFileChoices == {"none", "two", "bad"}

\* extract_archvie: a directory is returned as it is, a file is unzipped
\* into a temporary directory and that directory is returned (zipfile
\* raises on a file that is no zip), anything else is a ValueError.
extract_archvie(path) ==
    IF path \in {"dir", "zip"} THEN Ok("dir") ELSE Raised

\* Lines 186-191: the arguments are parsed and archive_path becomes the
\* extracted directory; an exception ends the run.
MainExtract ==
    /\ m_pc = "start"
    /\ \E dir \in {extract_archvie(archive_path)} :
          IF dir.ok
          THEN m_pc' = "discover" /\ archive_path' = dir.val
          ELSE m_pc' = "failed" /\ UNCHANGED archive_path
    /\ UNCHANGED <<archive_videos, m_cat, m_started, m_calls, dlCallVars,
                   m_files,
                   save, parallel, cleanVars, scanVars>>

\* A variant of discover_videos that takes a file it cannot parse for an
\* empty one.
discover_videos_lenient(files) ==
    Ok([c \in 1..4 |->
           IF read_videos(FileNamed(files[c])).ok
           THEN read_videos(FileNamed(files[c])).val ELSE <<>>])

\* discover_videos: read_videos on each of the four files; the first
\* ValueError leaves it.
discover_videos(files) ==
    IF \A c \in 1..4 : read_videos(FileNamed(files[c])).ok
    THEN Ok([c \in 1..4 |-> read_videos(FileNamed(files[c])).val])
    ELSE Raised

\* Line 192.
MainDiscover ==
    /\ m_pc = "discover"
    /\ \E found \in {discover_videos(m_files)} :
          IF found.ok
          THEN m_pc' = "category" /\ m_cat' = 1 /\ archive_videos' = found.val
          ELSE m_pc' = "failed" /\ UNCHANGED <<m_cat, archive_videos>>
    /\ UNCHANGED <<m_started, m_calls, dlCallVars, mainOthers>>

InSave(c) == \E i \in 1..Len(save) : save[i] = Categories[c]

\* Lines 194-214, one category: it is in args.save and its list is not
\* empty, so download_videos is called with it.
MainCall ==
    /\ m_pc = "category" /\ m_cat <= 4 /\ dl_pc = "idle"
    /\ InSave(m_cat) /\ archive_videos[m_cat] /= <<>>
    /\ dl_videos' = archive_videos[m_cat]
    /\ dl_threads' = parallel
    /\ dl_pc' = "call"
    /\ dl_next' = 1 /\ dl_worker' = <<>>
    /\ dl_results' = [i \in 1..Len(archive_videos[m_cat]) |-> NoResult]
    /\ done_count' = 0 /\ dl_output' = <<>>
    /\ dl_starts' = [i \in 1..Len(archive_videos[m_cat]) |-> 0]
    /\ dl_proc' = [i \in 1..Len(archive_videos[m_cat]) |-> NoProc]
    /\ m_calls' = Append(m_calls, Categories[m_cat])
    /\ UNCHANGED <<m_pc, archive_videos, m_cat, m_started, mainOthers>>

\* The category is not in args.save or its list is empty: nothing is done.
MainSkip ==
    /\ m_pc = "category" /\ m_cat <= 4 /\ dl_pc = "idle"
    /\ ~(InSave(m_cat) /\ archive_videos[m_cat] /= <<>>)
    /\ m_cat' = m_cat + 1
    /\ UNCHANGED <<m_pc, archive_videos, m_started, m_calls, dlCallVars,
                   mainOthers>>

\* download_videos has returned, its locals and its exhausted pool are
\* gone: on to the next category.
MainNext ==
    /\ m_pc = "category" /\ dl_pc = "returned"
    /\ m_cat' = m_cat + 1
    /\ dl_videos' = <<>> /\ dl_threads' = 0 /\ dl_pc' = "idle"
    /\ dl_next' = 1 /\ dl_worker' = <<>> /\ dl_results' = <<>>
    /\ done_count' = 0 /\ dl_output' = <<>> /\ dl_starts' = <<>>
    /\ dl_proc' = <<>>
    /\ UNCHANGED <<m_pc, archive_videos, m_started, m_calls, mainOthers>>

\* download_videos has raised: main catches nothing and the run ends.
MainRaise ==
    /\ m_pc = "category" /\ dl_pc = "raised"
    /\ m_pc' = "failed"
    /\ UNCHANGED <<archive_videos, m_cat, m_started, m_calls, dlCallVars,
                   mainOthers>>

\* All four categories are through: main returns.
MainDone ==
    /\ m_pc = "category" /\ m_cat = 5 /\ dl_pc = "idle"
    /\ m_pc' = "done"
    /\ UNCHANGED <<archive_videos, m_cat, m_started, m_calls, dlCallVars,
                   mainOthers>>

\* What archive_path may be: a directory, a zip file, a file that is no
\* zip, or neither a directory nor a file.
PathChoices == {"dir", "zip", "notzip", "neither"}

\* args.save: the --save options in command-line order.  Every selection
\* of categories, given last category first, and some given in category
\* order or twice.
RECURSIVE Reversed(_)
Reversed(sel) ==
    IF sel = {} THEN <<>>
    ELSE <<Categories[CHOOSE c \in sel : \A d \in sel : d <= c]>>
         \o Reversed(sel \ {CHOOSE c \in sel : \A d \in sel : d <= c})

SaveChoices ==
    {Reversed(sel) : sel \in SUBSET (1..4)}
    \cup {<<"favourites", "likes">>, <<"likes", "likes">>,
          <<"uploads", "history", "uploads">>}

InitMain ==
    /\ m_pc = "start"
    /\ archive_path \in PathChoices
    /\ m_files \in [1..4 -> MainFileChoices]
    /\ save \in SaveChoices
    /\ parallel \in (-1)..MaxThreads
    /\ archive_videos = <<>> /\ m_cat = 0 /\ m_started = 0
    /\ m_calls = <<>>
    /\ DlIdle /\ CleanIdle /\ ScanIdle

NextMain ==
    \/ MainExtract \/ MainDiscover \/ MainCall \/ MainSkip \/ MainNext
    \/ MainRaise \/ MainDone
    \/ DlBegin \/ Launch \/ LaunchFails \/ Exit \/ IterNext \/ DlReturn

SpecMain == InitMain /\ [][NextMain]_vars

\* ------------------------------------------------- properties: the scanner

Iso1 ==
    <<"2", "0", "2", "0", "-", "0", "8", "-", "1", "2", "T", "0", "2", ":",
      "1", "6", ":", "2", "2">>

Iso2 ==
    <<"2", "0", "2", "0", "-", "0", "8", "-", "1", "3", "T", "1", "0", ":",
      "0", "0", ":", "0", "0">>

Url1 ==
    <<"h", ":", "/", "1">>

Url2 ==
    <<"h", ":", "/", "2">>

GoodDateLines == {DateLine1, DateLine2}

GoodLinkLines == {LinkLine1, LinkLine2}

\* The file is N well-formed records: lines 2i-1 and 2i are one Date line
\* and one Video Link line, in either order.
IsRecordFile(f) ==
    /\ Len(f) % 2 = 0
    /\ \A i \in 1..(Len(f) \div 2) :
          \/ f[2 * i - 1] \in GoodDateLines /\ f[2 * i] \in GoodLinkLines
          \/ f[2 * i - 1] \in GoodLinkLines /\ f[2 * i] \in GoodDateLines

\* The Video a well-formed record stands for, written out by hand.
ExpectedVideo(a, b) ==
    [link |-> IF LinkLine1 \in {a, b} THEN Url1 ELSE Url2,
     datetime |-> IF DateLine1 \in {a, b} THEN Iso1 ELSE Iso2]

ExpectedVideos(f) ==
    [i \in 1..(Len(f) \div 2) |-> ExpectedVideo(f[2 * i - 1], f[2 * i])]

\* C5: on a file of N well-formed records, each a Date line and a Video
\* Link line in either order, read_videos raises nothing and returns
\* exactly N Videos in file order, the i-th built from the i-th record.
C5_ScannerPairing ==
    (rv_is_file /\ IsRecordFile(rv_lines)) =>
        /\ rv_pc /= "raised"
        /\ rv_pc = "returned" => rv_videos = ExpectedVideos(rv_lines)

\* Two records were returned, the first Date-first, the second Link-first.
C5_Witness ==
    /\ rv_pc = "returned" /\ rv_is_file /\ IsRecordFile(rv_lines)
    /\ Len(rv_lines) = 4 /\ Len(rv_videos) = 2
    /\ rv_lines[1] = DateLine1 /\ rv_lines[2] = LinkLine2
    /\ rv_lines[3] = LinkLine1 /\ rv_lines[4] = DateLine2

\* The line about to be read completes a Date/Link pair whose timestamp
\* text, trimmed, the pattern %Y-%m-%d %H:%M:%S rejects.
BadPairCompletes ==
    /\ rv_pc = "reading" /\ rv_pos < Len(rv_lines)
    /\ Truthy(DateAfter(rv_date_time, rv_lines[rv_pos + 1]))
    /\ Truthy(LinkAfter(rv_link, rv_lines[rv_pos + 1]))
    /\ ~clean_datetime(DateAfter(rv_date_time, rv_lines[rv_pos + 1]).val).ok

\* C7: when read_videos completes a Date/Link pair whose timestamp does not
\* match the pattern, Video(...) raises, no Video is appended for the pair,
\* and read_videos never returns a list: the call stays raised.
C7_MalformedIsHardStop ==
    /\ [][BadPairCompletes => (rv_pc' = "raised" /\ rv_videos' = rv_videos)]_vars
    /\ [][rv_pc = "raised" => rv_pc' = "raised"]_vars
    /\ [][rv_pc' = "returned" => ~BadPairCompletes]_vars

\* The pair "not-a-date" / link 2 was completed after one good record:
\* the call has raised and the Video read before is returned to nobody.
C7_Witness ==
    /\ rv_pc = "raised" /\ rv_pos = 4
    /\ rv_lines[3] = DateLineBad /\ rv_lines[4] = LinkLine2
    /\ Len(rv_videos) = 1

\* C10: every Video read_videos has constructed has a link without any
\* whitespace character, whatever followed "Video Link:".
C10_LinkHasNoWhitespace ==
    \A i \in 1..Len(rv_videos) :
        \A j \in 1..Len(rv_videos[i].link) :
            rv_videos[i].link[j] \notin Whitespace

\* ------------------------------------------- properties: the normalisation

\* C9, as claimed: for the link and for the timestamp, normalising a
\* normalised value succeeds and returns the same value.
C9_IdempotentBothFields ==
    /\ \A k \in 3..Len(cl_link) : cl_link[k] = cl_link[2]
    /\ \A k \in 3..Len(cl_datetime) :
          cl_datetime[k].ok /\ cl_datetime[k] = cl_datetime[2]

\* C9, amended: link normalisation is idempotent; timestamp normalisation
\* is not: applied to a normalised timestamp it raises.
C9_LinkIdempotentDatetimeRejects ==
    /\ \A k \in 3..Len(cl_link) : cl_link[k] = cl_link[2]
    /\ \A k \in 3..Len(cl_datetime) : ~cl_datetime[k].ok

\* Both normalisations were applied twice, the first application changed
\* the link and accepted the timestamp.
C9_Witness ==
    /\ Len(cl_link) >= 3 /\ cl_link[2] /= cl_link[1]
    /\ Len(cl_datetime) >= 3 /\ cl_datetime[2].ok

\* ------------------------------------------- properties: download_videos

\* The progress lines printed so far (the header line left out).
Progress == SelectSeq(dl_output, LAMBDA l : l.kind /= "header")

Count(seq, x) == Cardinality({i \in 1..Len(seq) : seq[i] = x})

ProgressLinks == [j \in 1..Len(Progress) |-> Progress[j].link]

VideoLinks == [i \in 1..Len(dl_videos) |-> dl_videos[i].link]

\* The call is over, one way or the other.
DlEnded == dl_pc \in {"returned", "raised"}

\* The fetch processes started and not yet exited.
InFlight ==
    Cardinality({i \in DOMAIN dl_proc : dl_proc[i].state = "running"})

\* C1: for N videos and W >= 1 one call of download_videos reports exactly
\* N outcomes, and the links they name are the input links as a multiset.
C1_OutcomeCompleteness ==
    (dl_threads >= 1 /\ DlEnded) =>
        /\ Len(Progress) = Len(dl_videos)
        /\ \A i \in 1..Len(dl_videos) :
              Count(ProgressLinks, dl_videos[i].link)
                  = Count(VideoLinks, dl_videos[i].link)

\* C2: with W >= 1 worker threads at most W fetch processes are started
\* and not yet exited, whatever the number of videos.
C2_BoundedConcurrency == dl_threads >= 1 => InFlight <= dl_threads

\* Two of three fetches run on two workers while the third waits.
C2_Witness ==
    /\ dl_threads = 2 /\ Len(dl_videos) = 3 /\ InFlight = 2 /\ dl_next = 3

\* C3: when the fetch process of a video cannot be started, download_videos
\* raises nothing, reports that video as FAILED, and reports every video
\* of the batch.
C3_LaunchFailureRecovered ==
    \A i \in DOMAIN dl_proc :
        (dl_threads >= 1 /\ dl_proc[i].state = "nolaunch") =>
            /\ dl_pc /= "raised"
            /\ dl_pc = "returned" =>
                  /\ Len(Progress) = Len(dl_videos)
                  /\ Progress[i].kind = "FAILED"

\* Every process has exited, item k non-zero and all others zero.
OneFailure(k) ==
    \A i \in DOMAIN dl_proc :
        /\ dl_proc[i].state = "exited"
        /\ dl_proc[i].returncode /= 0 <=> i = k

\* C4: when item k exits non-zero and all other items exit zero, nothing
\* is raised, the line of item k says FAILED, every other line says DONE,
\* and on return all N items are reported.
C4_IndependentFailure ==
    \A k \in DOMAIN dl_proc :
        OneFailure(k) =>
            /\ dl_pc /= "raised"
            /\ \A j \in 1..Len(Progress) :
                  /\ Progress[j].kind = IF j = k THEN "FAILED" ELSE "DONE"
                  /\ Progress[j].link = dl_videos[j].link
            /\ dl_pc = "returned" => Len(Progress) = Len(dl_videos)

\* Three videos, the second failed, and the call has returned.
C4_Witness ==
    /\ dl_pc = "returned" /\ Len(dl_videos) = 3 /\ OneFailure(2)
    /\ dl_threads = 2

\* -------------------------------------------------------- properties: main

\* The input has a fatal error: archive_path is neither a directory nor a
\* file, or a category file holds a completed pair with a malformed
\* timestamp.
FatalInput ==
    archive_path = "neither" \/ \E c \in 1..4 : m_files[c] = "bad"

\* C6: with a fatal error in the input the run ends with an error and no
\* fetch process is ever started, for any category.
C6_FatalBeforeDownloads ==
    FatalInput =>
        /\ m_started = 0 /\ dl_pc = "idle"
        /\ m_pc \in {"start", "discover", "failed"}

\* The history file, not selected, is malformed; favourites is selected and
\* holds videos; the run has failed.
C6_Witness ==
    /\ m_pc = "failed" /\ archive_path = "dir" /\ parallel >= 1
    /\ m_files[4] = "bad" /\ m_files[1] = "two"
    /\ InSave(1) /\ ~InSave(4)

\* C8: a missing category file is no error: discover_videos fails only on a
\* malformed file, and what it returns has a list in each of the four
\* slots, the empty list for each absent file, for every subset of the
\* files being present.
C8_MissingFileIsEmpty ==
    /\ (m_pc = "failed" /\ m_cat = 0 /\ archive_path = "dir") =>
           \E c \in 1..4 : m_files[c] = "bad"
    /\ m_pc \in {"category", "done"} =>
           /\ DOMAIN archive_videos = 1..4
           /\ \A c \in 1..4 :
                 /\ m_files[c] = "none" => archive_videos[c] = <<>>
                 /\ m_files[c] = "two" => Len(archive_videos[c]) = 2

\* Only the likes file is present and discover_videos has returned.
C8_Witness ==
    /\ m_pc = "category"
    /\ m_files = <<"none", "two", "none", "none">>
    /\ archive_videos[1] = <<>> /\ Len(archive_videos[2]) = 2

\* ------------------------------- properties: the counter and the reporter

\* A step of a pool worker: it takes a task, or its process exits.
WorkerStep ==
    dl_pc /= "call"
    /\ (dl_next' /= dl_next \/ dl_worker' /= dl_worker \/ dl_proc' /= dl_proc)

\* The progress lines written so far carry the counters 1, 2, ... in this
\* order, each with the total N, and there are done_count of them.
CountersRun ==
    /\ Len(Progress) = done_count /\ done_count <= Len(dl_videos)
    /\ \A j \in 1..Len(Progress) :
          Progress[j].count = j /\ Progress[j].total = Len(dl_videos)

\* C11: within one call over N videos the progress lines carry the
\* counters 1, 2, ... without gap, repeat or decrease under every
\* interleaving of the workers, a call that returns has written N of them,
\* each step writes at most one line and raises the counter by one with it,
\* and no step of a worker writes the counter or the output.
C11_StableRunningCounter ==
    /\ [](CountersRun /\ (dl_pc = "returned" => done_count = Len(dl_videos)))
    /\ [][WorkerStep => UNCHANGED <<done_count, dl_output>>]_vars
    /\ [][done_count' /= done_count =>
             /\ done_count' = done_count + 1
             /\ Len(dl_output') = Len(dl_output) + 1]_vars

\* The third fetch has exited before the second, which still runs, and the
\* first outcome is reported with counter 1.
C11_Witness ==
    /\ Len(dl_videos) = 3 /\ done_count = 1 /\ Len(Progress) = 1
    /\ dl_proc[2].state = "running" /\ dl_proc[3].state = "exited"

\* C12: with fair workers and every started process exiting, a call with
\* W >= 1 in the end has reported an outcome for each of the N videos and
\* has returned; and it has never returned while a fetch process is still
\* running, so a process that never exits keeps it from returning.
C12_EventualCompletion ==
    /\ dl_threads >= 1 =>
           <>(dl_pc = "returned" /\ Len(Progress) = Len(dl_videos))
    /\ [](dl_pc = "returned" => InFlight = 0)

\* C13: within one call youtube-dl is started at most once per element of
\* the input list and, when the call returns, exactly once; a task that was
\* started, has exited (zero or non-zero) or could not be started is never
\* started again.
C13_NoRetry ==
    /\ [](\A i \in DOMAIN dl_starts :
             /\ dl_starts[i] <= 1
             /\ dl_proc[i].state \in {"running", "exited"} => dl_starts[i] = 1
             /\ dl_pc = "returned" => dl_starts[i] = 1)
    /\ [][\A i \in DOMAIN dl_proc :
             dl_proc[i].state /= "none" => dl_starts'[i] = dl_starts[i]]_vars

\* Three videos, the first two fetches failed, and the call has returned
\* with one start each.
C13_Witness ==
    /\ dl_pc = "returned" /\ Len(dl_videos) = 3
    /\ dl_proc[1].returncode = 1 /\ dl_proc[2].returncode = 1
    /\ dl_proc[3].returncode = 0
    /\ \A i \in 1..3 : dl_starts[i] = 1

\* ------------------------------------------- properties: the reporting order

\* The process of video i has exited and its outcome is not yet reported.
ExitedUnreported(i) == dl_proc[i].state = "exited" /\ i > done_count

ValueAt(f, k) == SubSeq(f[k], FindFrom(f[k], ":", 1) + 1, Len(f[k]))

\* What a line is to the scanner: a Date line, a Video Link line that says
\* something, one that says nothing, or neither.
KindOf(f, k) ==
    IF StartsWith(f[k], DatePrefix) THEN "date"
    ELSE IF ~StartsWith(f[k], LinkPrefix) THEN "other"
    ELSE IF ValueAt(f, k) = <<>> THEN "nolink"
    ELSE "link"

Kinds(f) == [k \in 1..Len(f) |-> KindOf(f, k)]

\* The last line of the given kinds among lines p..q; 0 for none.
LastOf(kd, kinds, p, q) ==
    IF \E k \in p..q : kd[k] \in kinds
    THEN CHOOSE k \in p..q :
             kd[k] \in kinds /\ \A j \in (k + 1)..q : kd[j] \notin kinds
    ELSE 0

LastDate(kd, p, q) == LastOf(kd, {"date"}, p, q)

LastLink(kd, p, q) == LastOf(kd, {"link", "nolink"}, p, q)

\* Lines p..q hold a timestamp and a link: the last line of each kind is
\* there and says something.
BothSeen(kd, p, q) ==
    /\ LastDate(kd, p, q) /= 0
    /\ LastLink(kd, p, q) /= 0 /\ kd[LastLink(kd, p, q)] = "link"

\* The line that completes the block starting at line p; 0 for none.
BlockEnd(kd, p) ==
    IF \E q \in p..Len(kd) : BothSeen(kd, p, q)
    THEN CHOOSE q \in p..Len(kd) :
             BothSeen(kd, p, q) /\ \A r \in p..(q - 1) : ~BothSeen(kd, p, r)
    ELSE 0

\* The completed blocks from line p on, each as the numbers of its last
\* Date line and its last Video Link line.
RECURSIVE Pairs(_, _)
RECURSIVE PairsTo(_, _, _)
Pairs(kd, p) == PairsTo(kd, p, BlockEnd(kd, p))

PairsTo(kd, p, q) ==
    IF q = 0 THEN <<>>
    ELSE <<[date |-> LastDate(kd, p, q), link |-> LastLink(kd, p, q)]>>
         \o Pairs(kd, q + 1)

\* The first line after the completed blocks.
RECURSIVE OpenBlock(_, _)
RECURSIVE OpenBlockTo(_, _, _)
OpenBlock(kd, p) == OpenBlockTo(kd, p, BlockEnd(kd, p))

OpenBlockTo(kd, p, q) == IF q = 0 THEN p ELSE OpenBlock(kd, q + 1)

Seen == SubSeq(rv_lines, 1, rv_pos)

\* The slot the lines from the given one on leave: what the last line of
\* the kind says.
SlotOf(k) == IF k = 0 THEN None ELSE Some(ValueAt(rv_lines, k))

\* The Video a Date line and a Video Link line stand for, written out by
\* hand.
HandVideo(dateLine, linkLine) ==
    [link |-> CASE linkLine = LinkLine1 -> Url1
                [] linkLine = LinkLine2 -> Url2
                [] OTHER -> <<"\t", "h", ":", "/", "3">>,
     datetime |-> CASE dateLine = DateLine1 -> Iso1
                    [] dateLine = DateLine2 -> Iso2
                    [] OTHER -> <<>>]

\* The Videos so far are those of the given blocks, in order.
VideosAre(pairs) ==
    \A i \in 1..Len(rv_videos) :
        rv_videos[i]
            = HandVideo(rv_lines[pairs[i].date], rv_lines[pairs[i].link])

SlotsAre(kd, open) ==
    /\ rv_date_time = SlotOf(LastDate(kd, open, rv_pos))
    /\ rv_link = SlotOf(LastLink(kd, open, rv_pos))

LastValueWins(kd, pairs) ==
    /\ rv_pc \in {"reading", "returned"} =>
          /\ Len(rv_videos) = Len(pairs) /\ VideosAre(pairs)
          /\ SlotsAre(kd, OpenBlock(kd, 1))
    /\ rv_pc = "raised" =>
          /\ Len(rv_videos) = Len(pairs) - 1 /\ VideosAre(pairs)
          /\ rv_lines[pairs[Len(pairs)].date] = DateLineBad

LastValueWinsOn(kd) == LastValueWins(kd, Pairs(kd, 1))

\* C15: a Video is emitted exactly where a timestamp and a link have both
\* been seen since the last emission and it is built from the last line of
\* each kind since then; the slots hold the last values of the lines after
\* the last emission, carried on to the lines that follow.
C15_LastValueWins == LastValueWinsOn(Kinds(Seen))

\* Two Date lines came before the link: the Video has the second timestamp,
\* and the link of the fourth line is pending.
C15_Witness ==
    /\ rv_pc = "returned"
    /\ rv_lines = <<DateLine1, DateLine2, LinkLine1, LinkLine2>>
    /\ rv_videos = <<[link |-> Url1, datetime |-> Iso2]>>
    /\ rv_date_time = None /\ rv_link.set /\ rv_link.val = ValueAt(rv_lines, 4)

\* ------------------------------------------ properties: success and failure

\* The text before the first newline of s, all of s when it has none.
FirstLine(s) ==
    IF \E k \in 1..Len(s) : s[k] = "\n"
    THEN SubSeq(s, 1, (CHOOSE k \in 1..Len(s) :
                          s[k] = "\n" /\ \A j \in 1..(k - 1) : s[j] /= "\n") - 1)
    ELSE s

\* C16: the line of an outcome says DONE if and only if its process exited
\* with status zero; otherwise it says FAILED and its diagnostic is the
\* first line of what the process wrote to stderr.
C16_SuccessCriterion ==
    \A j \in 1..Len(Progress) :
        /\ dl_proc[j].state = "exited"
        /\ Progress[j].kind = "DONE" <=> dl_proc[j].returncode = 0
        /\ Progress[j].kind = "FAILED" <=> dl_proc[j].returncode /= 0
        /\ Progress[j].kind = "FAILED" =>
               Progress[j].error = FirstLine(dl_proc[j].stderr)

\* Three outcomes are reported: status 1 with two lines on stderr, a signal
\* with a line without newline, and status 0 with a warning on stderr.
C16_Witness ==
    /\ Len(Progress) = 3
    /\ dl_proc[1].returncode = 1 /\ Progress[1].error = <<"e">>
    /\ dl_proc[2].returncode = -9 /\ Progress[2].error = <<"x">>
    /\ dl_proc[3].returncode = 0 /\ dl_proc[3].stderr /= <<>>
    /\ Progress[3].kind = "DONE"

\* ----------------------------------------------- properties: the whole run

\* C17: a run whose --parallel value is zero or negative starts no fetch
\* process and is rejected with an error: it never ends normally, whatever
\* the archive holds and whatever --save selects.
C17_WorkerCountPositive ==
    parallel <= 0 => (m_started = 0 /\ m_pc /= "done")

\* C18: the progress line with counter k names the link of the k-th input
\* video, under every interleaving of the workers: the videos reported are
\* the first done_count of the input, even when a later process has
\* exited before.
C18_InputOrderReporting ==
    /\ Len(Progress) <= Len(dl_videos)
    /\ \A k \in 1..Len(Progress) :
          /\ Progress[k].count = k
          /\ Progress[k].link = dl_videos[k].link
          /\ \A i \in 1..k : dl_proc[i].state = "exited"

\* Video 3 has exited before video 2, which still runs, and the one line
\* printed is that of video 1, whose link differs from that of video 2.
C18_Witness ==
    /\ Len(dl_videos) = 3 /\ dl_videos[1] = Video2 /\ dl_videos[2] = Video1
    /\ Len(Progress) = 1 /\ Progress[1].link = Url2
    /\ dl_proc[2].state = "running" /\ dl_proc[3].state = "exited"

\* The categories in the order the run is to take them.
FixedOrder == <<"favourites", "likes", "uploads", "history">>

\* Category c is selected by some --save option and its file holds records.
Wanted(c) ==
    (\E i \in 1..Len(save) : save[i] = FixedOrder[c]) /\ m_files[c] = "two"

WantedNames ==
    [k \in 1..Len(SelectSeq(<<1, 2, 3, 4>>, Wanted)) |->
        FixedOrder[SelectSeq(<<1, 2, 3, 4>>, Wanted)[k]]]

IsPrefix(a, b) == Len(a) <= Len(b) /\ a = SubSeq(b, 1, Len(a))

\* C19: download_videos is called for the selected, non-empty categories
\* only, in the order favourites, likes, uploads, history whatever the
\* order of the --save options; a fetch is started only for the category
\* called last; main moves on and the next call is made only when every
\* outcome of the call before is reported and none of its processes runs;
\* and never more than W processes run.
C19_CategoriesInOrder ==
    /\ [](m_pc \in {"category", "done", "failed"} /\ m_cat > 0 =>
             IsPrefix(m_calls, WantedNames))
    /\ [](m_pc = "done" => m_calls = WantedNames)
    /\ [](InFlight <= IF parallel >= 1 THEN parallel ELSE 0)
    /\ [][m_started' /= m_started =>
             /\ m_calls /= <<>>
             /\ m_calls[Len(m_calls)] = FixedOrder[m_cat]
             /\ dl_videos = archive_videos[m_cat]]_vars
    /\ [][m_cat' /= m_cat /\ dl_pc /= "idle" =>
             /\ dl_pc = "returned" /\ InFlight = 0
             /\ Len(Progress) = Len(dl_videos)]_vars
    /\ [][m_calls' /= m_calls => dl_pc = "idle" /\ InFlight = 0]_vars

\* --save named likes before favourites and uploads was not selected: the
\* run is over, favourites was downloaded first, then likes, two fetches
\* each on two workers.
C19_Witness ==
    /\ m_pc = "done" /\ save = <<"likes", "favourites">> /\ parallel = 2
    /\ m_files = <<"two", "two", "two", "none">>
    /\ m_calls = <<"favourites", "likes">> /\ m_started = 4

\* ------------------------------------ properties: the scanner's invariant

CountOf(kd, kinds) == Cardinality({k \in DOMAIN kd : kd[k] \in kinds})

\* No more Videos than Date lines and than Video Link lines seen.
CountBound(kd) ==
    /\ Len(rv_videos) <= CountOf(kd, {"date"})
    /\ Len(rv_videos) <= CountOf(kd, {"link", "nolink"})

\* The step reads a line that starts with neither prefix.
ReadsOtherLine ==
    /\ rv_pc = "reading" /\ rv_pos < Len(rv_lines) /\ rv_pos' = rv_pos + 1
    /\ KindOf(rv_lines, rv_pos + 1) = "other"

====
